---------------------------- MODULE Spec2Model ----------------------------
(***************************************************************************)
(* Tic-tac-toe with a Monte Carlo Tree Search opponent.                    *)
(*   game.rs  Player, Board                                                *)
(*   mcts.rs  NodeState, Node, MCTS                                        *)
(*   main.rs  the controller loop and the background search worker         *)
(*                                                                         *)
(* Option<T> is a sequence of length 0 (None) or 1 (Some(x)).  An action   *)
(* (i32, i32) is the pair <<row, col>>.  A Vec is a sequence.  A function  *)
(* of mcts.rs that draws random numbers or may panic is an operator that   *)
(* yields the set of its outcomes; an outcome carries err = "none" or the  *)
(* message of the panic that ended it.                                     *)
(***************************************************************************)
EXTENDS Integers, Sequences, FiniteSets

\* Bounds of the model.  The random number generator of a run() is one that
\* draws one of the first width entries of a slice, 1 <= width <= MaxRand.
MaxRand == 2
\* run() with a generator of width 2 or more is explored while the root has
\* fewer than MaxVisits visits, run() with the generator of width 1 while it
\* has fewer than MaxDeepVisits visits.
MaxVisits == 2
MaxDeepVisits == 5
\* perform_action is called with every action a child of the root has, and
\* with the first MaxUnexplored cells that no child has.
MaxUnexplored == 1
\* In the harness the worker's generator has a width of at most MaxWorkerRand,
\* its run() is explored while the root has fewer than MaxWorkerVisits
\* visits, and the user enters one of the first MaxInput legal actions.
MaxWorkerRand == 1
MaxWorkerVisits == 3
MaxInput == 2

None == << >>

Some(x) == << x >>

unwrap(o) == o[1]

(***************************************************************************)
(* game.rs                                                                 *)
(***************************************************************************)
Players == {"X", "O"}

opponent(p) == IF p = "X" THEN "O" ELSE "X"

Board_new(first_player) ==
    [fields |-> [x \in 0..2 |-> [y \in 0..2 |-> None]],
     next_player |-> first_player]

has(b, player, x, y) == b.fields[x][y] = Some(player)

\* The two loops run over 0..2 with the upper end excluded: rows 0 and 1,
\* columns 0 and 1.
line_of(b, player) ==
    \/ \E row \in 0..1 :
          has(b, player, row, 0) /\ has(b, player, row, 1) /\ has(b, player, row, 2)
    \/ \E col \in 0..1 :
          has(b, player, 0, col) /\ has(b, player, 1, col) /\ has(b, player, 2, col)
    \/ has(b, player, 0, 0) /\ has(b, player, 1, 1) /\ has(b, player, 2, 2)
    \/ has(b, player, 0, 2) /\ has(b, player, 1, 1) /\ has(b, player, 2, 0)

get_winner(b) ==
    IF line_of(b, "X") THEN Some("X")
    ELSE IF line_of(b, "O") THEN Some("O")
    ELSE None

is_ended(b) ==
    IF get_winner(b) # None THEN TRUE
    ELSE \A x \in 0..2 : \A y \in 0..2 : b.fields[x][y] # None

is_legal_action(b, action) ==
    IF action[1] < 0 \/ action[1] > 2 \/ action[2] < 0 \/ action[2] > 2
    THEN FALSE
    ELSE b.fields[action[1]][action[2]] = None

\* The assignment and the change of turn of Board::perform_action; the
\* debug_assert in front of them is DebugAssertFails.
Board_perform_action(b, action) ==
    [fields |-> [b.fields EXCEPT ![action[1]][action[2]] = Some(b.next_player)],
     next_player |-> opponent(b.next_player)]

DebugAssertFails(b, action) == ~ is_legal_action(b, action)

\* The cells in the order of the two nested loops of get_actions.
Cells ==
    << <<0, 0>>, <<0, 1>>, <<0, 2>>,
       <<1, 0>>, <<1, 1>>, <<1, 2>>,
       <<2, 0>>, <<2, 1>>, <<2, 2>> >>

\* The number of cells of b that hold no player.
EmptyCells(b) ==
    Cardinality({i \in 1..Len(Cells) : b.fields[Cells[i][1]][Cells[i][2]] = None})

get_actions(b) ==
    IF is_ended(b) THEN << >>
    ELSE LET keep(a) == is_legal_action(b, a) IN SelectSeq(Cells, keep)

get_reward(b, player) ==
    IF is_ended(b)
    THEN IF get_winner(b) # None
         THEN IF unwrap(get_winner(b)) = player THEN Some(1) ELSE Some(-1)
         ELSE Some(0)
    ELSE None

(***************************************************************************)
(* rand                                                                    *)
(***************************************************************************)
Min(a, b) == IF a < b THEN a ELSE b

\* The values rng.choose(v) can return, for rng the width of the generator:
\* none for an empty slice.
choose(v, rng) == {v[i] : i \in 1..Min(Len(v), rng)}

(***************************************************************************)
(* f64, as far as best_child needs it.  A finite value is held in          *)
(* millionths; NEG_INFINITY, +inf and NaN are kept apart.                  *)
(***************************************************************************)
NaN == [kind |-> "nan", v |-> 0]

NEG_INFINITY == [kind |-> "neginf", v |-> 0]

INFINITY == [kind |-> "posinf", v |-> 0]

Finite(v) == [kind |-> "fin", v |-> v]

\* a > b on f64: false as soon as one side is NaN.
f64_gt(a, b) ==
    CASE a.kind = "nan" \/ b.kind = "nan" -> FALSE
      [] a.kind = "posinf" -> b.kind # "posinf"
      [] a.kind = "neginf" -> FALSE
      [] OTHER -> \/ b.kind = "neginf"
                  \/ b.kind = "fin" /\ a.v > b.v

\* (2. * n_total.ln() / n).sqrt() in millionths, row n_total, column n, for
\* 1 <= n_total, n <= 10.  Two different UCT values of nodes with at most 10
\* visits differ by more than 6e-5, so that comparing the millionths orders
\* them as the f64 comparison does.
ExploreTerm ==
    << <<0, 0, 0, 0, 0, 0, 0, 0, 0, 0>>,
       <<1177410, 832555, 679778, 588705, 526554, 480676, 445019, 416277, 392470, 372330>>,
       <<1482304, 1048147, 855809, 741152, 662906, 605148, 560258, 524074, 494101, 468746>>,
       <<1665109, 1177410, 961351, 832555, 744659, 679778, 629352, 588705, 555036, 526554>>,
       <<1794123, 1268636, 1035837, 897061, 802356, 732447, 678115, 634318, 598041, 567351>>,
       <<1893018, 1338566, 1092935, 946509, 846584, 772822, 715494, 669283, 631006, 598625>>,
       <<1972770, 1394959, 1138979, 986385, 882249, 805380, 745637, 697479, 657590, 623845>>,
       <<2039334, 1442027, 1177410, 1019667, 912018, 832555, 770796, 721013, 679778, 644894>>,
       <<2096294, 1482304, 1210296, 1048147, 937491, 855809, 792325, 741152, 698765, 662906>>,
       <<2145966, 1517427, 1238974, 1072983, 959705, 876087, 811099, 758714, 715322, 678614>> >>

\* w / n + (2. * n_total.ln() / n).sqrt() for integers w, n >= 0, n_total >= 0.
\* n = 0 divides by zero (0/0 is NaN, w/0 is an infinity); n_total = 0 takes
\* the logarithm of zero, the square root of -inf is NaN.
uct_value(w, n, n_total) ==
    IF n = 0
    THEN IF n_total > 1 /\ w > 0 THEN INFINITY ELSE NaN
    ELSE IF n_total = 0 THEN NaN
    ELSE Finite(((w * 1000000) \div n) + ExploreTerm[n_total][n])

(***************************************************************************)
(* mcts.rs: Node                                                           *)
(***************************************************************************)
NodeState == {"Leaf", "FullyExpanded", "Expandable"}

Ok(node, ret) == [node |-> node, ret |-> ret, err |-> "none"]

Panic(node, msg) == [node |-> node, ret |-> None, err |-> msg]

\* The loop of best_child from child i on; the result is the index of the
\* chosen child in self.children.
RECURSIVE best_child_from(_, _, _, _)
best_child_from(self, i, best_value, best) ==
    IF i > Len(self.children) THEN best
    ELSE LET child == self.children[i]
             value == uct_value(child.wins, child.runs, self.runs)
         IN  IF f64_gt(value, best_value)
             THEN best_child_from(self, i + 1, value, Some(i))
             ELSE best_child_from(self, i + 1, best_value, best)

\* Mutant of best_child: the best value starts at 0.
best_child_from_zero(self) == best_child_from(self, 1, Finite(0), None)

best_child(self) == best_child_from(self, 1, NEG_INFINITY, None)

\* Mutant of remove_item: it removes nothing.
remove_item_none(v, item) == v

\* Vec::remove_item: removes the first entry equal to item, if there is one.
RECURSIVE remove_item(_, _)
remove_item(v, item) ==
    IF v = << >> THEN << >>
    ELSE IF Head(v) = item THEN Tail(v)
    ELSE << Head(v) >> \o remove_item(Tail(v), item)

\* The loop of expand that removes the explored actions, from child i on.
RECURSIVE remove_explored(_, _, _)
remove_explored(actions, children, i) ==
    IF i > Len(children) THEN actions
    ELSE remove_explored(remove_item(actions, unwrap(children[i].action)),
                         children, i + 1)

\* Mutant of the child expand creates: it starts with one visit.
new_child_visited(self, action) ==
    [us |-> self.us,
     board |-> Board_perform_action(self.board, action),
     children |-> << >>,
     runs |-> 1,
     wins |-> 0,
     action |-> Some(action),
     state |-> "Expandable"]

new_child(self, action) ==
    [us |-> self.us,
     board |-> Board_perform_action(self.board, action),
     children |-> << >>,
     runs |-> 0,
     wins |-> 0,
     action |-> Some(action),
     state |-> "Expandable"]

\* Mutants of expand: with one action left to explore the node is marked
\* Leaf; the node is marked FullyExpanded with two actions left; the node is
\* marked FullyExpanded only once no action is left.
expand_leaf_last(self, rng) ==
    LET actions == get_actions(self.board) IN
    IF actions = << >>
    THEN {Ok([self EXCEPT !.state = "Leaf"], None)}
    ELSE IF \E i \in 1..Len(self.children) : self.children[i].action = None
    THEN {Panic(self, "Child has no action")}
    ELSE LET rest == remove_explored(actions, self.children, 1)
             marked == IF Len(rest) = 1
                       THEN [self EXCEPT !.state = "Leaf"]
                       ELSE self
         IN  IF choose(rest, rng) = {}
             THEN {Panic(marked, "actions is empty")}
             ELSE {Ok([marked EXCEPT
                          !.children = Append(@, new_child(self, action))],
                      Some(Len(self.children) + 1)) : action \in choose(rest, rng)}

expand_mark_early(self, rng) ==
    LET actions == get_actions(self.board) IN
    IF actions = << >>
    THEN {Ok([self EXCEPT !.state = "Leaf"], None)}
    ELSE IF \E i \in 1..Len(self.children) : self.children[i].action = None
    THEN {Panic(self, "Child has no action")}
    ELSE LET rest == remove_explored(actions, self.children, 1)
             marked == IF Len(rest) <= 2
                       THEN [self EXCEPT !.state = "FullyExpanded"]
                       ELSE self
         IN  IF choose(rest, rng) = {}
             THEN {Panic(marked, "actions is empty")}
             ELSE {Ok([marked EXCEPT
                          !.children = Append(@, new_child(self, action))],
                      Some(Len(self.children) + 1)) : action \in choose(rest, rng)}

expand_mark_late(self, rng) ==
    LET actions == get_actions(self.board) IN
    IF actions = << >>
    THEN {Ok([self EXCEPT !.state = "Leaf"], None)}
    ELSE IF \E i \in 1..Len(self.children) : self.children[i].action = None
    THEN {Panic(self, "Child has no action")}
    ELSE LET rest == remove_explored(actions, self.children, 1)
             marked == IF Len(rest) = 0
                       THEN [self EXCEPT !.state = "FullyExpanded"]
                       ELSE self
         IN  IF choose(rest, rng) = {}
             THEN {Panic(marked, "actions is empty")}
             ELSE {Ok([marked EXCEPT
                          !.children = Append(@, new_child(self, action))],
                      Some(Len(self.children) + 1)) : action \in choose(rest, rng)}

\* The outcomes of expand: node is self afterwards, ret the index of the new
\* child (None when the board has no actions).
expand(self, rng) ==
    LET actions == get_actions(self.board) IN
    IF actions = << >>
    THEN {Ok([self EXCEPT !.state = "Leaf"], None)}
    ELSE IF \E i \in 1..Len(self.children) : self.children[i].action = None
    THEN {Panic(self, "Child has no action")}
    ELSE LET rest == remove_explored(actions, self.children, 1)
             marked == IF Len(rest) = 1
                       THEN [self EXCEPT !.state = "FullyExpanded"]
                       ELSE self
         IN  IF choose(rest, rng) = {}
             THEN {Panic(marked, "actions is empty")}
             ELSE {Ok([marked EXCEPT
                          !.children = Append(@, new_child(self, action))],
                      Some(Len(self.children) + 1)) : action \in choose(rest, rng)}

\* Mutant of the move of the loop of simulate: the action is not performed.
rollout_step_idle(board, rng) == {board}

\* One pass of the loop of simulate over board: the boards the pass can end
\* with, one for each action choose can draw.
rollout_step(board, rng) ==
    LET actions == get_actions(board) IN
    IF actions # << >>
    THEN {Board_perform_action(board, action) : action \in choose(actions, rng)}
    ELSE {board}

\* The rewards the loop of simulate can return when it is at one of boards:
\* those of the boards a pass ends with that have a reward, and those of the
\* further passes from the other boards.
RECURSIVE rollout(_, _, _)
rollout(boards, us, rng) ==
    IF boards = {} THEN {}
    ELSE LET after == UNION {rollout_step(b, rng) : b \in boards}
             open == {b \in after : get_reward(b, us) = None}
         IN  {unwrap(get_reward(b, us)) : b \in after \ open} \cup rollout(open, us, rng)

\* Mutant of simulate: it returns the reward and records nothing.
simulate_unvisited(self, rng) ==
    IF self.runs # 0 THEN {Panic(self, "assertion failed: self.runs == 0")}
    ELSE IF self.wins # 0 THEN {Panic(self, "assertion failed: self.wins == 0")}
    ELSE {Ok(self, reward) : reward \in rollout({self.board}, self.us, rng)}

simulate(self, rng) ==
    IF self.runs # 0 THEN {Panic(self, "assertion failed: self.runs == 0")}
    ELSE IF self.wins # 0 THEN {Panic(self, "assertion failed: self.wins == 0")}
    ELSE {Ok([self EXCEPT !.runs = 1, !.wins = reward], reward) :
             reward \in rollout({self.board}, self.us, rng)}

\* `return current_reward`: the reward of the node's own board.
return_current_reward(self) ==
    LET current_reward == get_reward(self.board, self.us) IN
    IF current_reward = None
    THEN Panic(self, "no reward")
    ELSE Ok(self, unwrap(current_reward))

\* Mutant of backpropagate: the visit and the reward are counted on the
\* child a second time.
backpropagate_twice(self, i, o) ==
    IF o.err # "none" THEN Panic(self, o.err)
    ELSE Ok([self EXCEPT !.children[i] = [o.node EXCEPT !.runs = @ + 1,
                                                        !.wins = @ + o.ret],
                         !.runs = @ + 1,
                         !.wins = @ + o.ret],
            o.ret)

\* Mutant of backpropagate: the visit is not counted.
backpropagate_skip(self, i, o) ==
    IF o.err # "none" THEN Panic(self, o.err)
    ELSE Ok([self EXCEPT !.children[i] = o.node,
                         !.wins = @ + o.ret],
            o.ret)

\* Mutant of backpropagate: the reward is added twice.
backpropagate_reward_twice(self, i, o) ==
    IF o.err # "none" THEN Panic(self, o.err)
    ELSE Ok([self EXCEPT !.children[i] = o.node,
                         !.runs = @ + 1,
                         !.wins = @ + 2 * o.ret],
            o.ret)

\* Backpropagation: child i of self has become o.node and returned o.ret.
backpropagate(self, i, o) ==
    IF o.err # "none" THEN Panic(self, o.err)
    ELSE Ok([self EXCEPT !.children[i] = o.node,
                         !.runs = @ + 1,
                         !.wins = @ + o.ret],
            o.ret)

RECURSIVE perform_mcts(_, _)
perform_mcts(self, rng) ==
    CASE self.state = "Leaf" -> {return_current_reward(self)}
      [] self.state = "FullyExpanded" ->
           LET best == best_child(self) IN
           IF best = None
           THEN {Panic(self, "Fully expanded node without children")}
           ELSE {backpropagate(self, unwrap(best), o) :
                    o \in perform_mcts(self.children[unwrap(best)], rng)}
      [] self.state = "Expandable" ->
           UNION {IF e.err # "none" THEN {e}
                  ELSE IF e.ret = None THEN {return_current_reward(e.node)}
                  ELSE {backpropagate(e.node, unwrap(e.ret), o) :
                           o \in simulate(e.node.children[unwrap(e.ret)], rng)} :
                  e \in expand(self, rng)}

finished(self) ==
    /\ self.state # "Expandable"
    /\ \A i \in 1..Len(self.children) : self.children[i].state # "Expandable"

(***************************************************************************)
(* mcts.rs: MCTS                                                           *)
(***************************************************************************)
MCTS_new(player, first_action) ==
    [root |-> [us |-> player,
               board |-> Board_new(IF first_action THEN player ELSE opponent(player)),
               children |-> << >>,
               runs |-> 0,
               wins |-> 0,
               action |-> None,
               state |-> "Expandable"],
     us |-> player]

MCTS_get_action(self) ==
    LET best == best_child(self.root) IN
    IF best = None THEN Ok(self, None)
    ELSE IF self.root.children[unwrap(best)].action = None
    THEN Panic(self, "Best child without action")
    ELSE Ok(self, self.root.children[unwrap(best)].action)

\* Mutant of MCTS::run: no test of finished.
MCTS_run_always(self, rng) ==
    {IF o.err # "none" THEN Panic(self, o.err)
     ELSE Ok([self EXCEPT !.root = o.node], None) :
        o \in perform_mcts(self.root, rng)}

MCTS_run(self, rng) ==
    IF ~ finished(self.root)
    THEN {IF o.err # "none" THEN Panic(self, o.err)
          ELSE Ok([self EXCEPT !.root = o.node], None) :
             o \in perform_mcts(self.root, rng)}
    ELSE {Ok(self, None)}

\* The search of perform_action for the child with the action, from child i
\* on: its index, None, or the panic of a child without action.
RECURSIVE find_child(_, _, _)
find_child(children, action, i) ==
    IF i > Len(children) THEN Ok(None, None)
    ELSE IF children[i].action = None THEN Panic(None, "Child without action")
    ELSE IF unwrap(children[i].action) = action THEN Ok(None, Some(i))
    ELSE find_child(children, action, i + 1)

\* Mutants of MCTS::perform_action: one takes the first child, one starts a
\* new tree on the board of the child, one goes on without a child.
MCTS_perform_action_first(self, action) ==
    LET idx == find_child(self.root.children, action, 1) IN
    IF idx.err # "none" THEN Panic(self, idx.err)
    ELSE IF idx.ret = None THEN Panic(self, "No child with action to be performed")
    ELSE Ok([self EXCEPT !.root = self.root.children[1]], None)

MCTS_perform_action_reopen(self, action) ==
    LET idx == find_child(self.root.children, action, 1) IN
    IF idx.err # "none" THEN Panic(self, idx.err)
    ELSE IF idx.ret = None THEN Panic(self, "No child with action to be performed")
    ELSE Ok([self EXCEPT !.root = [self.root.children[unwrap(idx.ret)] EXCEPT
                                      !.state = "Expandable"]],
            None)

MCTS_perform_action_lenient(self, action) ==
    LET idx == find_child(self.root.children, action, 1) IN
    IF idx.err # "none" THEN Panic(self, idx.err)
    ELSE IF idx.ret = None THEN Ok(self, None)
    ELSE Ok([self EXCEPT !.root = self.root.children[unwrap(idx.ret)]], None)

MCTS_perform_action(self, action) ==
    LET idx == find_child(self.root.children, action, 1) IN
    IF idx.err # "none" THEN Panic(self, idx.err)
    ELSE IF idx.ret = None THEN Panic(self, "No child with action to be performed")
    ELSE Ok([self EXCEPT !.root = self.root.children[unwrap(idx.ret)]], None)

(***************************************************************************)
(* main.rs                                                                 *)
(***************************************************************************)
PLAYER_USER == "X"

PLAYER_AI == "O"

START_PLAYER == PLAYER_USER

VARIABLES
    ai,         \* the worker's MCTS
    err,        \* the panic that ended the thread owning ai, or "none"
    call,       \* the latest call of perform_action or run on ai
    prev,       \* history: ai before that call
    board,      \* the controller's board
    chan,       \* the actions sent on tx and not yet received from rx
    ai_action,  \* the shared Mutex: its data, and whether it is poisoned
    wpc,        \* the worker's place in its loop: "recv", "run", "publish"
    cpc,        \* the controller: "loop", "done" or "panicked"
    cerr,       \* the panic that ended the controller, or "none"
    sent,       \* history: every action sent on tx, in order
    applied,    \* history: every action the worker applied to ai, in order
    origin,     \* history: Len(applied) when ai_action was last written
    read,       \* history: the controller's latest read of ai_action
    sim         \* one call of simulate: the loop's board and its place in the loop

vars == <<ai, err, call, prev, board, chan, ai_action, wpc, cpc, cerr,
          sent, applied, origin, read, sim>>

engine == <<ai, err, call, prev>>

harness == <<board, chan, ai_action, wpc, cpc, cerr, sent, applied, origin, read, sim>>

Call(op, arg) == [op |-> op, arg |-> arg]

Mutex(data, poisoned) == [data |-> data, poisoned |-> poisoned]

\* A read of ai_action: the value, the origin of the value, how many
\* actions the controller had sent before, and whether the value is an
\* action that is legal on the controller's board.
Read(value, from, before, legal) ==
    [value |-> value, origin |-> from, sent |-> before, legal |-> legal]

\* A call of simulate on a node of player us with the given board, at the
\* top of its loop; empty and moves are history: the empty cells of the
\* node's board, and the actions the loop has performed.
Simulation(b, us) ==
    [board |-> b, us |-> us, pc |-> "actions", ret |-> None,
     empty |-> EmptyCells(b), moves |-> 0]

\* main: the state when the worker and the controller start.
Start ==
    /\ ai = MCTS_new(PLAYER_AI, PLAYER_AI = START_PLAYER)
    /\ err = "none"
    /\ call = Call("new", None)
    /\ prev = ai
    /\ board = Board_new(START_PLAYER)
    /\ chan = << >>
    /\ ai_action = Mutex(None, FALSE)
    /\ wpc = "recv"
    /\ cpc = "loop"
    /\ cerr = "none"
    /\ sent = << >>
    /\ applied = << >>
    /\ origin = 0
    /\ read = Read(None, 0, 0, FALSE)

Init ==
    /\ Start
    /\ sim = Simulation(Board_new(START_PLAYER), PLAYER_AI)

VisitBudget(rng) == IF rng = 1 THEN MaxDeepVisits ELSE MaxVisits

\* ai.run() with a generator of width rng, explored while the root stays
\* within budget visits.
CallRun(rng, budget) ==
    /\ ai.root.runs < budget \/ finished(ai.root)
    /\ \E o \in MCTS_run(ai, rng) :
          /\ o.node.root.runs <= budget
          /\ ai' = o.node
          /\ err' = o.err
    /\ call' = Call("run", None)
    /\ prev' = ai

\* ai.perform_action(action)
CallPerformAction(action) ==
    /\ LET o == MCTS_perform_action(ai, action) IN
          /\ ai' = o.node
          /\ err' = o.err
    /\ call' = Call("perform_action", Some(action))
    /\ prev' = ai

(***************************************************************************)
(* The engine on its own: any sequence of run and perform_action on the    *)
(* MCTS built by new, until one of them panics.                            *)
(***************************************************************************)
Run ==
    /\ err = "none"
    /\ \E rng \in 1..MaxRand : CallRun(rng, VisitBudget(rng))
    /\ UNCHANGED harness

\* The actions perform_action is called with: those of the root's children,
\* and the first MaxUnexplored cells that no child of the root has.
Inputs(root) ==
    LET explored(a) == find_child(root.children, a, 1).ret # None
        unexplored(a) == ~ explored(a)
        with == SelectSeq(Cells, explored)
        without == SelectSeq(Cells, unexplored)
    IN  {with[i] : i \in 1..Len(with)}
           \cup {without[i] : i \in 1..Min(Len(without), MaxUnexplored)}

PerformAction ==
    /\ err = "none"
    /\ \E action \in Inputs(ai.root) : CallPerformAction(action)
    /\ UNCHANGED harness

Next ==
    \/ Run
    \/ PerformAction

Spec == Init /\ [][Next]_vars

(***************************************************************************)
(* main: the worker thread and the controller.  The process, and the       *)
(* worker with it, ends when main returns or panics.                       *)
(***************************************************************************)
WorkerAlive == cpc = "loop" /\ err = "none"

\* Mutant of the worker's receive: it takes the newest action of the channel.
WorkerRecv_newest ==
    /\ cpc = "loop" /\ err = "none"
    /\ wpc = "recv"
    /\ IF chan # << >>
       THEN /\ chan' = SubSeq(chan, 1, Len(chan) - 1)
            /\ CallPerformAction(chan[Len(chan)])
            /\ applied' = IF err' = "none" THEN Append(applied, chan[Len(chan)]) ELSE applied
            /\ wpc' = IF err' = "none" THEN "run" ELSE wpc
       ELSE /\ wpc' = "run"
            /\ UNCHANGED <<engine, chan, applied>>
    /\ UNCHANGED <<board, ai_action, cpc, cerr, sent, origin, read, sim>>

\* if let Ok(action) = rx.try_recv() { ai.perform_action(action); }
WorkerRecv ==
    /\ WorkerAlive
    /\ wpc = "recv"
    /\ IF chan # << >>
       THEN /\ chan' = Tail(chan)
            /\ CallPerformAction(Head(chan))
            /\ applied' = IF err' = "none" THEN Append(applied, Head(chan)) ELSE applied
            /\ wpc' = IF err' = "none" THEN "run" ELSE wpc
       ELSE /\ wpc' = "run"
            /\ UNCHANGED <<engine, chan, applied>>
    /\ UNCHANGED <<board, ai_action, cpc, cerr, sent, origin, read, sim>>

\* ai.run();
WorkerRun ==
    /\ WorkerAlive
    /\ wpc = "run"
    /\ \E rng \in 1..MaxWorkerRand : CallRun(rng, MaxWorkerVisits)
    /\ wpc' = IF err' = "none" THEN "publish" ELSE wpc
    /\ UNCHANGED <<board, chan, ai_action, cpc, cerr, sent, applied, origin, read, sim>>

\* let mut action = _ai_action.lock().unwrap(); *action = ai.get_action();
\* A panic of get_action unwinds through the guard and poisons the Mutex.
WorkerPublish ==
    /\ WorkerAlive
    /\ wpc = "publish"
    /\ ~ ai_action.poisoned
    /\ LET o == MCTS_get_action(ai) IN
          /\ err' = o.err
          /\ ai_action' = IF o.err = "none"
                           THEN Mutex(o.ret, FALSE)
                           ELSE Mutex(ai_action.data, TRUE)
          /\ origin' = IF o.err = "none" THEN Len(applied) ELSE origin
          /\ wpc' = IF o.err = "none" THEN "recv" ELSE wpc
    /\ UNCHANGED <<ai, call, prev, board, chan, cpc, cerr, sent, applied, read, sim>>

ControllerPanics(msg) ==
    /\ cpc' = "panicked"
    /\ cerr' = msg

\* tx.send(action).unwrap(); board.perform_action(action);
\* The send fails once the worker has panicked and dropped rx.  The
\* debug_assert of Board::perform_action is checked in a debug build only:
\* an illegal action panics in one build and overwrites the cell in the other.
SendAndPerform(action) ==
    IF err # "none"
    THEN /\ ControllerPanics("send on a closed channel")
         /\ UNCHANGED <<board, chan, sent>>
    ELSE /\ chan' = Append(chan, action)
         /\ sent' = Append(sent, action)
         /\ \/ /\ DebugAssertFails(board, action)
               /\ ControllerPanics("assertion failed: self.is_legal_action(action)")
               /\ UNCHANGED board
            \/ /\ board' = Board_perform_action(board, action)
               /\ UNCHANGED <<cpc, cerr>>

\* The actions the user's line can stand for that pass is_legal_action.
LegalInput(b) ==
    LET ok(action) == is_legal_action(b, action)
        legal == SelectSeq(Cells, ok)
    IN  {legal[i] : i \in 1..Min(Len(legal), MaxInput)}

\* The turn of PLAYER_USER: the loop that reads a line until it is a legal
\* action, then the send.
UserTurn ==
    /\ cpc = "loop"
    /\ ~ is_ended(board)
    /\ board.next_player = PLAYER_USER
    /\ \E action \in LegalInput(board) : SendAndPerform(action)
    /\ UNCHANGED <<engine, ai_action, wpc, applied, origin, read, sim>>

\* The turn of PLAYER_AI: action = ai_action.lock().unwrap().unwrap(), then
\* the send.  The sleep before it orders nothing.
AiTurn ==
    /\ cpc = "loop"
    /\ ~ is_ended(board)
    /\ board.next_player # PLAYER_USER
    /\ read' = Read(ai_action.data, origin, Len(sent),
                     ai_action.data # None /\ is_legal_action(board, unwrap(ai_action.data)))
    /\ IF ai_action.poisoned
       THEN /\ ControllerPanics("PoisonError")
            /\ UNCHANGED <<board, chan, sent>>
       ELSE IF ai_action.data = None
       THEN /\ ControllerPanics("unwrap on None")
            /\ UNCHANGED <<board, chan, sent>>
       ELSE SendAndPerform(unwrap(ai_action.data))
    /\ UNCHANGED <<engine, ai_action, wpc, applied, origin, sim>>

\* while !board.is_ended() ends; main prints the result and returns.
GameOver ==
    /\ cpc = "loop"
    /\ is_ended(board)
    /\ cpc' = "done"
    /\ UNCHANGED <<engine, board, chan, ai_action, wpc, cerr, sent, applied, origin, read, sim>>

HarnessNext ==
    \/ WorkerRecv
    \/ WorkerRun
    \/ WorkerPublish
    \/ UserTurn
    \/ AiTurn
    \/ GameOver

Harness == Init /\ [][HarnessNext]_vars

(***************************************************************************)
(* simulate on its own: the loop of one call, pass by pass, on the board of *)
(* any node the tree can hold.  A pass is the draw and the move, then the   *)
(* test of the reward.                                                      *)
(***************************************************************************)
\* The generator of the loop draws any entry of the slice.
AnyEntry == Len(Cells)

\* The boards that come of Board::new by moves that get_actions offers.
RECURSIVE boards_from(_, _)
boards_from(seen, frontier) ==
    IF frontier = {} THEN seen
    ELSE LET next == UNION {rollout_step(b, AnyEntry) : b \in frontier}
         IN  boards_from(seen \cup frontier, next \ (seen \cup frontier))

Boards == boards_from({}, {Board_new(START_PLAYER)})

SimInit ==
    /\ Start
    /\ \E b \in Boards : \E us \in Players : sim = Simulation(b, us)

\* let actions = board.get_actions(); if !actions.is_empty() { ... }
SimulateMove ==
    /\ sim.pc = "actions"
    /\ \E b \in rollout_step(sim.board, AnyEntry) :
          sim' = [sim EXCEPT !.board = b,
                             !.moves = IF b = sim.board THEN @ ELSE @ + 1,
                             !.pc = "reward"]
    /\ UNCHANGED <<engine, board, chan, ai_action, wpc, cpc, cerr, sent, applied, origin, read>>

\* if let Some(reward) = board.get_reward(self.us) { ...; reward }
SimulateReward ==
    /\ sim.pc = "reward"
    /\ LET reward == get_reward(sim.board, sim.us) IN
          sim' = IF reward # None
                 THEN [sim EXCEPT !.ret = reward, !.pc = "returned"]
                 ELSE [sim EXCEPT !.pc = "actions"]
    /\ UNCHANGED <<engine, board, chan, ai_action, wpc, cpc, cerr, sent, applied, origin, read>>

SimNext ==
    \/ SimulateMove
    \/ SimulateReward

\* The thread that runs the loop goes on running it.
Sim == SimInit /\ [][SimNext]_vars /\ WF_vars(SimNext)

(***************************************************************************)
(* Properties.  The vocabulary of the claims.                              *)
(***************************************************************************)
children_of(node) == {node.children[i] : i \in 1..Len(node.children)}

\* "finished" as the claims state it: the root, and every child it has, is
\* Leaf or FullyExpanded.
IsFinished(node) ==
    /\ node.state \in {"Leaf", "FullyExpanded"}
    /\ \A c \in children_of(node) : c.state \in {"Leaf", "FullyExpanded"}

\* The nodes of the tree under node, node included.
RECURSIVE nodes_of(_)
nodes_of(node) == {node} \cup UNION {nodes_of(c) : c \in children_of(node)}

\* The latest call was run, or perform_action, and has returned.
IsRun == call.op = "run" /\ err = "none"

IsPerformAction == call.op = "perform_action" /\ err = "none"

\* C1: perform_action(a), for a the action of a child c of the root, leaves
\* as root exactly c, subtree and statistics as they were; the board of the
\* new root is the board of the old root with a applied; no sibling of c
\* is in the new tree.
C1_TreeReuse ==
    IsPerformAction =>
       LET a == unwrap(call.arg)
           old == prev.root
       IN  \E i \in 1..Len(old.children) :
              /\ old.children[i].action = Some(a)
              /\ ai.root = old.children[i]
              /\ ai.root.board = Board_perform_action(old.board, a)
              /\ \A j \in 1..Len(old.children) :
                    j # i => old.children[j] \notin nodes_of(ai.root)

\* perform_action has made root one of several children, one that has a
\* subtree of its own.
C1_Witness ==
    /\ IsPerformAction
    /\ Len(prev.root.children) >= 2
    /\ ai.root.children # << >>
    /\ ai.root.runs >= 2

\* C5 as claimed: every call of perform_mcts on the root, that is every
\* run() on a tree that is not finished, adds exactly 1 to the root's runs.
C5_EveryCallCounts ==
    IsRun /\ ~ IsFinished(prev.root) => ai.root.runs = prev.root.runs + 1

\* C5 amended: it adds exactly 1 when the root's board has a legal action;
\* on a root whose board has none the call leaves runs and wins as they are.
C5_OneVisitPerIteration ==
    IsRun /\ ~ IsFinished(prev.root) =>
       IF get_actions(prev.root.board) # << >>
       THEN ai.root.runs = prev.root.runs + 1
       ELSE ai.root.runs = prev.root.runs /\ ai.root.wins = prev.root.wins

\* run() has called perform_mcts on a root whose board is ended, and has
\* called it on a FullyExpanded root with several children.
C5_WitnessEnded ==
    /\ IsRun
    /\ ~ IsFinished(prev.root)
    /\ get_actions(prev.root.board) = << >>

C5_Witness ==
    /\ IsRun
    /\ prev.root.state = "FullyExpanded"
    /\ ~ IsFinished(prev.root)
    /\ Len(prev.root.children) >= 2

\* C6: on a finished tree run() changes no node and leaves the tree finished.
C6_FinishedRunIsNoOp ==
    call.op = "run" /\ IsFinished(prev.root) =>
       /\ ai = prev
       /\ err = "none"
       /\ IsFinished(ai.root)

\* run() has been called on a finished tree whose root has children.
C6_Witness ==
    /\ call.op = "run"
    /\ IsFinished(prev.root)
    /\ Len(prev.root.children) >= 2

\* C7 as claimed: finished, once true, stays true over run() and over
\* perform_action with an explored action.
C7_FinishedPermanent ==
    (IsRun \/ IsPerformAction) /\ IsFinished(prev.root) => IsFinished(ai.root)

\* C7 amended: it stays true over run(); after perform_action the new root
\* is not Expandable, and the tree is finished exactly if the child that
\* became root had no Expandable child.
C7_FinishedUntilCommit ==
    IsFinished(prev.root) =>
       /\ IsRun => IsFinished(ai.root)
       /\ IsPerformAction =>
             /\ ai.root.state # "Expandable"
             /\ IsFinished(ai.root) <=>
                   \A c \in children_of(prev.root) :
                      c.action = call.arg =>
                         \A g \in children_of(c) : g.state # "Expandable"

\* perform_action on a finished tree has left a tree that is not finished.
C7_Witness ==
    /\ IsPerformAction
    /\ IsFinished(prev.root)
    /\ ~ IsFinished(ai.root)

\* run() has been called on a finished tree after a perform_action.
C7_WitnessRun ==
    /\ IsRun
    /\ IsFinished(prev.root)
    /\ prev.root.action # None
    /\ prev.root.children # << >>

\* C8: get_action returns None exactly if the root has no children, and
\* otherwise the action of one of the root's children, which is one of the
\* actions of the root's board.
C8_GetAction ==
    LET o == MCTS_get_action(ai)
        legal == get_actions(ai.root.board)
    IN  /\ o.err = "none"
        /\ o.ret = None <=> ai.root.children = << >>
        /\ o.ret # None =>
              /\ \E c \in children_of(ai.root) : c.action = o.ret
              /\ \E k \in 1..Len(legal) : legal[k] = unwrap(o.ret)

\* get_action has a choice between children of different value.
C8_Witness ==
    /\ Len(ai.root.children) >= 2
    /\ MCTS_get_action(ai).ret = ai.root.children[2].action
    /\ err = "none"

\* C10: a run() on an unfinished tree updates one path from the root.  The
\* relation between a node before (old) and after (new) a pass with reward r:
\* the node is at the end of the path, Leaf and with its statistics and
\* children as before; or it gains 1 visit and r, and either has one more
\* child, with 1 visit, r and no children, or has one child that is related
\* in the same way while its other children are as before.
SameNode(old, new) ==
    /\ new.us = old.us
    /\ new.board = old.board
    /\ new.action = old.action

Untouched(old, new) ==
    /\ SameNode(old, new)
    /\ new.state = "Leaf"
    /\ new.runs = old.runs
    /\ new.wins = old.wins
    /\ new.children = old.children

IsNewChild(node, r) ==
    /\ node.runs = 1
    /\ node.wins = r
    /\ node.children = << >>

RECURSIVE PathUpdate(_, _, _)
PathUpdate(old, new, r) ==
    \/ Untouched(old, new)
    \/ /\ SameNode(old, new)
       /\ new.runs = old.runs + 1
       /\ new.wins = old.wins + r
       /\ \/ /\ Len(new.children) = Len(old.children) + 1
             /\ SubSeq(new.children, 1, Len(old.children)) = old.children
             /\ IsNewChild(new.children[Len(new.children)], r)
          \/ /\ Len(new.children) = Len(old.children)
             /\ \E i \in 1..Len(old.children) :
                   /\ \A j \in 1..Len(old.children) :
                         j # i => new.children[j] = old.children[j]
                   /\ PathUpdate(old.children[i], new.children[i], r)

C10_SinglePath ==
    IsRun /\ ~ IsFinished(prev.root) =>
       \E r \in {-1, 0, 1} : PathUpdate(prev.root, ai.root, r)

\* A run() has gone through the root and a child to a grandchild whose board
\* is ended: the grandchild has become Leaf with its statistics as they
\* were, the child and the root have one visit more.
C10_Witness ==
    /\ IsRun
    /\ ~ IsFinished(prev.root)
    /\ \E i \in 1..Len(prev.root.children) :
          /\ ai.root.children[i].runs = prev.root.children[i].runs + 1
          /\ \E j \in 1..Len(prev.root.children[i].children) :
                /\ prev.root.children[i].children[j].state = "Expandable"
                /\ ai.root.children[i].children[j].state = "Leaf"
                /\ ai.root.children[i].children[j].runs =
                      prev.root.children[i].children[j].runs

\* A run() has added a grandchild of the root.
C10_WitnessNew ==
    /\ IsRun
    /\ \E i \in 1..Len(prev.root.children) :
          Len(ai.root.children[i].children) = Len(prev.root.children[i].children) + 1

(***************************************************************************)
(* Invariants of the tree.                                                 *)
(***************************************************************************)
\* The nodes of the tree.  A call that panics leaves the tree as it was
\* before the call, so the nodes are looked at after the calls that return.
Nodes == IF err = "none" THEN nodes_of(ai.root) ELSE {}

\* A node's state is terminal: its board has no legal actions.
IsTerminal(node) == get_actions(node.board) = << >>

\* C11 as claimed: a node is Leaf exactly if its state is terminal.
C11_LeafIffTerminal ==
    \A n \in Nodes : n.state = "Leaf" <=> IsTerminal(n)

\* C11 amended: a Leaf node is terminal; a terminal node is Leaf or
\* Expandable, has no children and has 1 visit.
C11_LeafOnlyIfTerminal ==
    \A n \in Nodes :
       /\ n.state = "Leaf" => IsTerminal(n)
       /\ IsTerminal(n) =>
             /\ n.state \in {"Leaf", "Expandable"}
             /\ n.children = << >>
             /\ n.runs = 1

\* The tree holds a terminal node that is Leaf and one that is Expandable.
C11_Witness ==
    /\ err = "none"
    /\ \E n \in Nodes : IsTerminal(n) /\ n.state = "Leaf"
    /\ \E n \in Nodes : IsTerminal(n) /\ n.state = "Expandable"

\* The legal actions of a node's board, and whether the node has a child
\* for an action.
LegalActions(node) ==
    {get_actions(node.board)[k] : k \in 1..Len(get_actions(node.board))}

HasChildFor(node, action) ==
    \E c \in children_of(node) : c.action = Some(action)

\* C12: a node whose board has a legal action is FullyExpanded if every
\* legal action has a child with that action, and Expandable if not.
C12_FullyExpandedIffAllExplored ==
    \A n \in Nodes :
       ~ IsTerminal(n) =>
          IF \A a \in LegalActions(n) : HasChildFor(n, a)
          THEN n.state = "FullyExpanded"
          ELSE n.state = "Expandable"

\* The tree holds a FullyExpanded node with several children, and an
\* Expandable node that has children and an action without a child.
C12_Witness ==
    /\ err = "none"
    /\ \E n \in Nodes : n.state = "FullyExpanded" /\ Len(n.children) >= 2
    /\ \E n \in Nodes :
          n.state = "Expandable" /\ n.children # << >> /\ ~ IsTerminal(n)

\* C13: no node has two children with the same action; the action of a
\* child is a legal action of its parent's board, and the child's board is
\* the parent's board with the action applied.
C13_ChildrenByAction ==
    \A n \in Nodes :
       /\ \A i, j \in 1..Len(n.children) :
             i # j => n.children[i].action # n.children[j].action
       /\ \A c \in children_of(n) :
             /\ c.action # None
             /\ unwrap(c.action) \in LegalActions(n)
             /\ c.board = Board_perform_action(n.board, unwrap(c.action))

\* After a perform_action the root has several children, one of them with
\* a child of its own.
C13_Witness ==
    /\ err = "none"
    /\ ai.root.action # None
    /\ Len(ai.root.children) >= 2
    /\ \E c \in children_of(ai.root) : c.children # << >>

\* C14: expand has not failed on "actions is empty", and every Expandable
\* node whose board has a legal action has one without a child, so that
\* expand draws from a slice that is not empty.
C14_ExpandHasUntried ==
    /\ err # "actions is empty"
    /\ \A n \in Nodes :
          n.state = "Expandable" /\ ~ IsTerminal(n) =>
             /\ \A c \in children_of(n) : c.action # None
             /\ remove_explored(get_actions(n.board), n.children, 1) # << >>

\* A run() has expanded the root with its last untried action.
C14_Witness ==
    /\ IsRun
    /\ prev.root.state = "Expandable"
    /\ prev.root.children # << >>
    /\ ai.root.state = "FullyExpanded"
    /\ Len(ai.root.children) = Len(prev.root.children) + 1

\* C15: a node with children has a visit and so has each of its children,
\* so that the value best_child computes for a child is finite; a
\* FullyExpanded node has a child, and perform_mcts has not failed on one
\* without; after a run() or perform_action the root has a visit.
C15_BestChildIsDefined ==
    /\ err # "Fully expanded node without children"
    /\ err = "none" /\ call.op # "new" => ai.root.runs >= 1
    /\ \A n \in Nodes :
          /\ n.state = "FullyExpanded" => n.children # << >>
          /\ n.children # << >> =>
                /\ n.runs >= 1
                /\ \A c \in children_of(n) :
                      /\ c.runs >= 1
                      /\ uct_value(c.wins, c.runs, n.runs).kind = "fin"

\* A run() has taken best_child of a FullyExpanded root and then of the
\* FullyExpanded child it chose.
C15_Witness ==
    /\ IsRun
    /\ prev.root.state = "FullyExpanded"
    /\ ~ IsFinished(prev.root)
    /\ best_child(prev.root) # None
    /\ prev.root.children[unwrap(best_child(prev.root))].state = "FullyExpanded"

\* The children a pass has added, each with its parent before and after.
RECURSIVE Added(_, _)
Added(old, new) ==
    IF Len(new.children) > Len(old.children)
    THEN {<<old, new, new.children[Len(new.children)]>>}
    ELSE UNION {Added(old.children[i], new.children[i]) :
                   i \in 1..Len(old.children)}

\* C16: simulate has not failed on one of its assertions; the node a run()
\* has simulated has 1 visit and as wins the reward returned to its parent,
\* which is -1, 0 or 1, and has the board it was created with.
C16_SimulateRecordsOneVisit ==
    /\ err # "assertion failed: self.runs == 0"
    /\ err # "assertion failed: self.wins == 0"
    /\ IsRun =>
          \A t \in Added(prev.root, ai.root) :
             LET old == t[1]
                 new == t[2]
                 node == t[3]
             IN  /\ node.runs = 1
                 /\ node.wins \in {-1, 0, 1}
                 /\ new.wins = old.wins + node.wins
                 /\ node.action # None
                 /\ node.board = Board_perform_action(old.board, unwrap(node.action))
                 /\ node.children = << >>

\* A run() has simulated a node whose board is not ended, and the rollout
\* has ended with a winner.
C16_Witness ==
    /\ IsRun
    /\ \E t \in Added(prev.root, ai.root) :
          /\ ~ IsTerminal(t[3])
          /\ t[3].wins # 0
          /\ t[1] # prev.root

RECURSIVE SumRuns(_)
SumRuns(children) ==
    IF children = << >> THEN 0
    ELSE Head(children).runs + SumRuns(Tail(children))

\* C20: the wins of a node lie between -runs and runs; its runs are at
\* least the sum of its children's runs; if no child is terminal, its runs
\* exceed that sum by 1, or by 0 for the root created by new.
C20_StatisticsAccounting ==
    \A n \in Nodes :
       /\ - n.runs <= n.wins
       /\ n.wins <= n.runs
       /\ n.runs >= SumRuns(n.children)
       /\ (\A c \in children_of(n) : ~ IsTerminal(c)) =>
             n.runs - SumRuns(n.children) = IF n.action = None THEN 0 ELSE 1

\* The root has a terminal child and a visit that no child counts, and a
\* child that is not terminal.
C20_Witness ==
    /\ err = "none"
    /\ \E c \in children_of(ai.root) : IsTerminal(c)
    /\ \E c \in children_of(ai.root) : ~ IsTerminal(c)
    /\ ai.root.runs - SumRuns(ai.root.children) >= 2

(***************************************************************************)
(* Properties of the harness.                                              *)
(***************************************************************************)
IsPrefix(a, b) == Len(a) <= Len(b) /\ SubSeq(b, 1, Len(a)) = a

\* C2 as claimed: a recommendation the controller reads was computed on a
\* root to which every action sent before the read had been applied.
C2_CommitBeforeSearch == read.value # None => read.origin >= read.sent

\* C3 as claimed: the controller does not fail when it reads None.
C3_ToleratesNone == ~ (cpc = "panicked" /\ cerr = "unwrap on None")

\* C4: the actions the worker has applied are the first of those sent, in
\* the order sent, and the channel holds the rest; the receive never waits;
\* an action is applied in the step from "recv" to "run" only, one at a
\* time and the oldest first, so before the run() and the write of
\* ai_action of the same pass of the loop.
OrderedCommits ==
    /\ IsPrefix(applied, sent)
    /\ err = "none" => sent = applied \o chan
    /\ cpc = "loop" /\ err = "none" /\ wpc = "recv" => ENABLED WorkerRecv

OrderedCommitsStep ==
    /\ applied' # applied =>
          /\ wpc = "recv" /\ wpc' = "run"
          /\ chan # << >>
          /\ chan' = Tail(chan)
          /\ applied' = Append(applied, Head(chan))
          /\ ai'.root.action = Some(Head(chan))
    /\ Len(chan') < Len(chan) => wpc = "recv" /\ chan' = Tail(chan)
    /\ wpc' # wpc =>
          \/ wpc = "recv" /\ wpc' = "run"
          \/ wpc = "run" /\ wpc' = "publish" /\ applied' = applied
          \/ wpc = "publish" /\ wpc' = "recv" /\ applied' = applied
    /\ ai_action' # ai_action \/ origin' # origin =>
          /\ wpc = "publish" /\ wpc' = "recv"
          /\ origin' = Len(applied)

C4_OrderedCommits == [] OrderedCommits /\ [][OrderedCommitsStep]_vars

\* The worker has applied two actions, and has written ai_action since.
C4_Witness ==
    /\ Len(applied) = 2
    /\ origin = 2
    /\ ai_action.data # None

\* C9: when the worker receives an action that no child of its root has,
\* it ends with the panic of perform_action, its root as it was and nothing
\* applied; once it has panicked it does nothing more.
UnexploredCommitStep ==
    /\ ( /\ cpc = "loop" /\ err = "none" /\ wpc = "recv"
         /\ Len(chan') < Len(chan)
         /\ \A c \in children_of(ai.root) : c.action # Some(Head(chan)) )
       => /\ err' = "No child with action to be performed"
          /\ ai' = ai
          /\ applied' = applied
    /\ err # "none" =>
          /\ UNCHANGED <<ai, err, ai_action, applied, chan, wpc, origin>>

C9_UnexploredCommitAborts == [][UnexploredCommitStep]_vars

\* The worker has panicked on an action that is legal on its root's board.
C9_Witness ==
    /\ err = "No child with action to be performed"
    /\ call.op = "perform_action"
    /\ \E k \in 1..Len(get_actions(ai.root.board)) :
          get_actions(ai.root.board)[k] = unwrap(call.arg)

\* C19 as claimed: the action the controller takes from ai_action on an AI
\* turn is legal on the controller's board, and the assertion of
\* Board::perform_action does not fail.
C19_AiActionIsLegal ==
    /\ read.value # None => read.legal
    /\ cerr # "assertion failed: self.is_legal_action(action)"

(***************************************************************************)
(* Properties of simulate and of the board.                                *)
(***************************************************************************)
\* C17: a call of simulate returns, with a reward of -1, 0 or 1; each move
\* of its loop fills one empty cell of the board, so that the moves are at
\* most the empty cells of the board it started with.
C17_RolloutTerminates ==
    /\ <>(sim.pc = "returned")
    /\ [](sim.moves + EmptyCells(sim.board) = sim.empty)
    /\ [](sim.pc = "returned" => sim.ret \in {Some(-1), Some(0), Some(1)})

\* A call of simulate on a board that has no move yet has returned.
C17_Witness ==
    /\ sim.pc = "returned"
    /\ sim.empty = 9
    /\ sim.moves >= 5

\* A call of simulate on a board that is ended has returned.
C17_WitnessEnded ==
    /\ sim.pc = "returned"
    /\ sim.moves = 0
    /\ is_ended(sim.board)

\* The eight lines of the board, and whether player occupies one of them.
Lines ==
    {{<<r, 0>>, <<r, 1>>, <<r, 2>>} : r \in 0..2}
       \cup {{<<0, c>>, <<1, c>>, <<2, c>>} : c \in 0..2}
       \cup {{<<0, 0>>, <<1, 1>>, <<2, 2>>}, {<<0, 2>>, <<1, 1>>, <<2, 0>>}}

OccupiesLine(b, player) ==
    \E l \in Lines : \A cell \in l : has(b, player, cell[1], cell[2])

\* C18 as claimed: get_winner returns Some(p) exactly if p occupies one of
\* the eight lines; such a board is ended, has no legal actions, and
\* get_reward gives 1 to p and -1 to p's opponent.
C18_WinnerCoversAllLines ==
    \A p \in Players :
       /\ get_winner(sim.board) = Some(p) <=>
             /\ OccupiesLine(sim.board, p)
             /\ p = "X" \/ ~ OccupiesLine(sim.board, "X")
       /\ OccupiesLine(sim.board, p) =>
             /\ is_ended(sim.board)
             /\ get_actions(sim.board) = << >>
       /\ OccupiesLine(sim.board, p) /\ ~ OccupiesLine(sim.board, opponent(p)) =>
             /\ get_reward(sim.board, p) = Some(1)
             /\ get_reward(sim.board, opponent(p)) = Some(-1)

=============================================================================
